---- MODULE Spec2Model ----
(***************************************************************************)
(* A model of the cupoch geometry / io / visualization sources:            *)
(*   - geometry::PointCloud down-sampling and outlier removal              *)
(*   - thrust::strided_range                                               *)
(*   - io::ReadPointCloud / io::WritePointCloud                            *)
(*   - visualization::glsl::TexturePhongShader                             *)
(*   - geometry::Graph<Dim> factories                                      *)
(*                                                                         *)
(* Numbers.  Coordinates are small integers and voxel sizes are small      *)
(* integers, so every float operation of the modelled code is exact.  The  *)
(* half-voxel padding (voxel_size * 0.5) is kept exact by holding the      *)
(* voxel bounds as twice their value.  A mean is held as the exact         *)
(* fraction [num, den]; a normalised vector is held symbolically.          *)
(* The width of int is IntBits (so that the "voxel_size is too small"      *)
(* branch is within reach of small coordinates).                           *)
(***************************************************************************)
EXTENDS Integers, Sequences, FiniteSets, TLC

VARIABLES
    points_,    \* PointCloud::points_   (sequence of 3-vectors)
    normals_,   \* PointCloud::normals_  (empty, or one per point)
    colors_,    \* PointCloud::colors_   (empty, or one per point)
    call,       \* the last call made: [fn, arg, outcome]
    events,     \* the steps that call executed, in program order
    keys,       \* the voxel keys that call computed (VoxelDownSample's `keys`)
    ret_indices, \* the index vector that call returned (the outlier removers)
    output,     \* the value that call returned
    range_src,    \* strided_range: the range [first, last) it is built over
    range_stride, \* strided_range: stride (0 before a range is built)
    range_reads,  \* the 0-based indices of [first, last) read from begin() to end()
    range_out,    \* the elements read from begin() to end()
    io_cloud,   \* the geometry::PointCloud handed to ReadPointCloud / WritePointCloud
    io_call,    \* the last io call: [fn, filename, format, ret]
    io_events,  \* what that call invoked, in program order
    shader,             \* the TexturePhongShader's members
    gl_buffers,         \* names of the GL buffer objects that exist
    gl_textures,        \* names of the GL textures that exist
    cuda_registered,    \* registered CUDA graphics resources: [handle, buffer]
    cuda_unregistered,  \* handles that have been unregistered
    cuda_mapped,        \* handles currently mapped
    shader_call,        \* the last shader call: [fn, geometry, ret]
    shader_events,      \* the GL / CUDA calls it made, in program order
    graph_call,    \* the last Graph factory call: [fn, input, outcome]
    graph_out,     \* the graph it returned: <<graph>>, or <<>> when it threw
    graph_events   \* what it read and ran, in program order

pcVars == <<points_, normals_, colors_, call, events, keys, ret_indices, output>>

rangeVars == <<range_src, range_stride, range_reads, range_out>>

ioVars == <<io_cloud, io_call, io_events>>

shaderVars ==
    <<shader, gl_buffers, gl_textures, cuda_registered, cuda_unregistered,
      cuda_mapped, shader_call, shader_events>>

graphVars == <<graph_call, graph_out, graph_events>>

vars == <<pcVars, rangeVars, ioVars, shaderVars, graphVars>>

----------------------------------------------------------------------------
(* Bounds of the model *)

MaxPoints == 3
MaxCoord == 3
MaxVoxelSize == 2
MaxStride == 4
MaxRangeLen == 7
MaxRangeBase == 3
IntBits == 3
MaxNeighbors == 2
MaxRadius == 2
MaxStdRatio == 2

MaxBinds == 3

MaxRes == 2

MaxExtent == 2

MaxIndices == 3

----------------------------------------------------------------------------
(* Vectors and sequences *)

Axes == 1..3

Zero3 == <<0, 0, 0>>

VecAdd(a, b) == [i \in Axes |-> a[i] + b[i]]

Min2(a, b) == IF a <= b THEN a ELSE b

Max2(a, b) == IF a >= b THEN a ELSE b

RECURSIVE SeqMin(_, _)
SeqMin(s, i) ==
    IF Len(s) = 1 THEN s[1][i] ELSE Min2(s[1][i], SeqMin(Tail(s), i))

RECURSIVE SeqMax(_, _)
SeqMax(s, i) ==
    IF Len(s) = 1 THEN s[1][i] ELSE Max2(s[1][i], SeqMax(Tail(s), i))

\* std::numeric_limits<int>::max() for an int of IntBits bits
IntMax == 2 ^ (IntBits - 1) - 1

\* an empty PointCloud, as std::make_shared<PointCloud>() constructs it
EmptyCloud == [points |-> <<>>, normals |-> <<>>, colors |-> <<>>]

HasPoints == Len(points_) > 0

HasNormals == Len(points_) > 0 /\ Len(normals_) = Len(points_)

HasColors == Len(points_) > 0 /\ Len(colors_) = Len(points_)

\* Geometry3D::GetMinBound / GetMaxBound: component-wise bound, zero when empty
GetMinBound == IF Len(points_) = 0 THEN Zero3 ELSE [i \in Axes |-> SeqMin(points_, i)]

GetMaxBound == IF Len(points_) = 0 THEN Zero3 ELSE [i \in Axes |-> SeqMax(points_, i)]

\* utility::LogError either throws or returns to its caller
LogErrorOutcomes == {"throws", "returns"}

----------------------------------------------------------------------------
(* thrust::strided_range *)

\* stride_functor::operator(): the index the i-th element reads (0-based)
stride_functor(stride, i) == stride * i

\* a slip of end(): the length rounded down instead of up
strided_range_size_floor(n, stride) == n \div stride

\* strided_range::end() - begin()
strided_range_size(n, stride) == (n + (stride - 1)) \div stride

\* the 0-based indices of [first, last) that the range dereferences, in order
strided_range_indices(n, stride) ==
    [j \in 1..strided_range_size(n, stride) |-> stride_functor(stride, j - 1)]

\* *it for an iterator it of the range: the element at 0-based index i of
\* [first, last); an index at or past last reads whatever lies there (-1)
Deref(src, i) == IF i < Len(src) THEN src[i + 1] ELSE -1

\* a strided_range is built over range_src and read from begin() to end()
StridedRange(stride) ==
    /\ range_stride' = stride
    /\ range_reads' = strided_range_indices(Len(range_src), stride)
    /\ range_out' = [j \in 1..strided_range_size(Len(range_src), stride) |->
                        Deref(range_src, stride_functor(stride, j - 1))]
    /\ UNCHANGED range_src

----------------------------------------------------------------------------
(* PointCloud::UniformDownSample *)

\* thrust::copy(range.begin(), range.end(), dst.begin()) into a vector of
\* n_out elements: what the vector holds afterwards
CopyStrided(src, stride, n_out) ==
    LET idx == strided_range_indices(Len(src), stride)
    IN  [j \in 1..n_out |-> IF j <= Len(idx) THEN src[idx[j] + 1] ELSE Zero3]

\* the copy writes element j of the range to dst[j]: it runs past the end
\* of dst when the range is longer than dst
CopyOverruns(n, stride, n_out) == strided_range_size(n, stride) > n_out

UniformNOut(n, every_k_points) == n \div every_k_points

\* every_k_points == 0: LogError, then `return output`
UniformReject(every_k_points, logError) ==
    /\ events' = <<"LogError">>
    /\ output' = EmptyCloud
    /\ call' = [fn |-> "UniformDownSample", arg |-> every_k_points,
                outcome |-> IF logError = "throws" THEN "threw" ELSE "returned"]

\* the body after the check: n_out, resize, strided ranges, copies.
\* A copy that runs past the end of its destination is undefined behaviour:
\* the call either crashes or returns the n_out elements that fit.
UniformCopy(every_k_points, overrun) ==
    LET n_out == UniformNOut(Len(points_), every_k_points)
        over == CopyOverruns(Len(points_), every_k_points, n_out)
    IN  /\ (~over => overrun = "returned")
        /\ events' = <<"divide", "strided_range", "copy">>
                        \o (IF over THEN <<"write past end">> ELSE <<>>)
        /\ output' =
             IF overrun = "crashed" THEN EmptyCloud
             ELSE [points |-> CopyStrided(points_, every_k_points, n_out),
                   normals |-> IF HasNormals
                               THEN CopyStrided(normals_, every_k_points, n_out)
                               ELSE <<>>,
                   colors |-> IF HasColors
                              THEN CopyStrided(colors_, every_k_points, n_out)
                              ELSE <<>>]
        /\ call' = [fn |-> "UniformDownSample", arg |-> every_k_points,
                    outcome |-> overrun]

\* a slip of the check: the error is logged and the body runs all the same,
\* so points_.size() / 0 is evaluated
UniformDownSample_fallthrough(every_k_points, logError, overrun) ==
    /\ IF every_k_points = 0
       THEN /\ overrun = "crashed"
            /\ events' = <<"LogError", "divide">>
            /\ output' = EmptyCloud
            /\ call' = [fn |-> "UniformDownSample", arg |-> every_k_points,
                        outcome |-> IF logError = "throws" THEN "threw" ELSE "crashed"]
       ELSE logError = "returns" /\ UniformCopy(every_k_points, overrun)
    /\ keys' = <<>>
    /\ ret_indices' = <<>>
    /\ UNCHANGED <<points_, normals_, colors_>>

UniformDownSample(every_k_points, logError, overrun) ==
    /\ IF every_k_points = 0
       THEN overrun = "returned" /\ UniformReject(every_k_points, logError)
       ELSE logError = "returns" /\ UniformCopy(every_k_points, overrun)
    /\ keys' = <<>>
    /\ ret_indices' = <<>>
    /\ UNCHANGED <<points_, normals_, colors_>>

----------------------------------------------------------------------------
(* PointCloud::VoxelDownSample *)

MaxCoeff(v) == Max2(v[1], Max2(v[2], v[3]))

\* twice voxel_min_bound = GetMinBound() - voxel_size3 * 0.5
voxel_min_bound2(voxel_size) == [i \in Axes |-> 2 * GetMinBound[i] - voxel_size]

\* twice voxel_max_bound = GetMaxBound() + voxel_size3 * 0.5
voxel_max_bound2(voxel_size) == [i \in Axes |-> 2 * GetMaxBound[i] + voxel_size]

\* a slip of the size check: the check never fires
VoxelSizeTooSmall_never(voxel_size) == FALSE

\* voxel_size * INT_MAX < (voxel_max_bound - voxel_min_bound).maxCoeff(),
\* both sides doubled
VoxelSizeTooSmall(voxel_size) ==
    2 * voxel_size * IntMax <
        MaxCoeff([i \in Axes |-> voxel_max_bound2(voxel_size)[i]
                                   - voxel_min_bound2(voxel_size)[i]])

\* a slip of the key: rounding to the nearest voxel instead of floor
compute_key_functor_round(vmin2, voxel_size, pt) ==
    [i \in Axes |-> (2 * pt[i] - vmin2[i] + voxel_size) \div (2 * voxel_size)]

\* compute_key_functor::operator(): floor((pt - voxel_min_bound) / voxel_size),
\* numerator and denominator doubled
compute_key_functor(vmin2, voxel_size, pt) ==
    [i \in Axes |-> (2 * pt[i] - vmin2[i]) \div (2 * voxel_size)]

\* operator< on Eigen::Vector3i, the order thrust::sort_by_key sorts keys by
KeyLess(a, b) ==
    \/ a[1] < b[1]
    \/ a[1] = b[1] /\ a[2] < b[2]
    \/ a[1] = b[1] /\ a[2] = b[2] /\ a[3] < b[3]

\* one row per point: the key with the values sorted along with it
RECURSIVE InsertRow(_, _)
InsertRow(sorted, row) ==
    IF sorted = <<>> THEN <<row>>
    ELSE IF KeyLess(row.key, sorted[1].key) THEN <<row>> \o sorted
    ELSE <<sorted[1]>> \o InsertRow(Tail(sorted), row)

\* thrust::sort_by_key(keys, make_tuple_begin(sorted_points, ...))
RECURSIVE sort_by_key(_)
sort_by_key(rows) ==
    IF rows = <<>> THEN <<>>
    ELSE InsertRow(sort_by_key(SubSeq(rows, 1, Len(rows) - 1)), rows[Len(rows)])

\* a slip of the sum: the count of the run is not carried along
add_tuple_functor_uncounted(x, y) ==
    [key |-> x.key,
     point |-> VecAdd(x.point, y.point),
     normal |-> VecAdd(x.normal, y.normal),
     color |-> VecAdd(x.color, y.color),
     count |-> x.count]

\* add_tuple_functor: component-wise sum of two (point, normal, color, count) tuples
add_tuple_functor(x, y) ==
    [key |-> x.key,
     point |-> VecAdd(x.point, y.point),
     normal |-> VecAdd(x.normal, y.normal),
     color |-> VecAdd(x.color, y.color),
     count |-> x.count + y.count]

\* thrust::reduce_by_key with binary_pred = equal_to<Vector3i>: every run of
\* consecutive equal keys is reduced to one output by add_func
RECURSIVE reduce_by_key(_, _)
reduce_by_key(rows, acc) ==
    IF rows = <<>> THEN acc
    ELSE IF acc # <<>> /\ acc[Len(acc)].key = rows[1].key
    THEN reduce_by_key(Tail(rows),
             [acc EXCEPT ![Len(acc)] = add_tuple_functor(acc[Len(acc)], rows[1])])
    ELSE reduce_by_key(Tail(rows), Append(acc, rows[1]))

\* devide_tuple_functor: the exact quotient x / y
devide_tuple_functor(x, y) == [num |-> x, den |-> y]

\* normalize_and_devide_tuple_functor on the normal: (x / y).normalize()
normalize_and_devide_tuple_functor(x, y) == [normalized |-> devide_tuple_functor(x, y)]

\* the keys thrust::transform(points_, keys, ck_func) writes, in point order
VoxelKeys(voxel_size) ==
    [i \in 1..Len(points_) |->
        compute_key_functor(voxel_min_bound2(voxel_size), voxel_size, points_[i])]

VoxelRows(voxel_size) ==
    [i \in 1..Len(points_) |->
        [key |-> VoxelKeys(voxel_size)[i],
         point |-> points_[i],
         normal |-> IF HasNormals THEN normals_[i] ELSE Zero3,
         color |-> IF HasColors THEN colors_[i] ELSE Zero3,
         count |-> 1]]

\* the four has_normals / has_colors branches: sort, reduce, divide, resize
VoxelOutput(voxel_size) ==
    LET reduced == reduce_by_key(sort_by_key(VoxelRows(voxel_size)), <<>>)
        n_out == Len(reduced)
    IN  [points |-> [j \in 1..n_out |->
                        devide_tuple_functor(reduced[j].point, reduced[j].count)],
         normals |-> IF HasNormals
                     THEN [j \in 1..n_out |->
                             normalize_and_devide_tuple_functor(reduced[j].normal,
                                                                reduced[j].count)]
                     ELSE <<>>,
         colors |-> IF HasColors
                    THEN [j \in 1..n_out |->
                            devide_tuple_functor(reduced[j].color, reduced[j].count)]
                    ELSE <<>>]

VoxelDownSample(voxel_size) ==
    /\ call' = [fn |-> "VoxelDownSample", arg |-> voxel_size, outcome |-> "returned"]
    /\ IF voxel_size <= 0
       THEN /\ events' = <<"LogWarning">>
            /\ keys' = <<>>
            /\ output' = EmptyCloud
       ELSE IF VoxelSizeTooSmall(voxel_size)
       THEN /\ events' = <<"GetMinBound", "GetMaxBound", "LogWarning">>
            /\ keys' = <<>>
            /\ output' = EmptyCloud
       ELSE /\ events' = <<"GetMinBound", "GetMaxBound", "compute_key",
                           "sort_by_key", "reduce_by_key", "divide">>
            /\ keys' = VoxelKeys(voxel_size)
            /\ output' = VoxelOutput(voxel_size)
    /\ ret_indices' = <<>>
    /\ UNCHANGED <<points_, normals_, colors_>>

----------------------------------------------------------------------------
(* SelectByIndexImpl, and the index selection the outlier removers share *)

\* thrust::gather(indices, src, dst): dst[i] = src[indices[i]] (0-based indices)
\* a slip of the gather: the indices are walked from the back
Gather_reversed(indices, src) ==
    [i \in 1..Len(indices) |-> src[indices[Len(indices) + 1 - i] + 1]]

Gather(indices, src) == [i \in 1..Len(indices) |-> src[indices[i] + 1]]

SelectByIndexImpl(indices) ==
    [points |-> Gather(indices, points_),
     normals |-> IF HasNormals THEN Gather(indices, normals_) ELSE <<>>,
     colors |-> IF HasColors THEN Gather(indices, colors_) ELSE <<>>]

\* thrust::copy_if(enumerate(values), pred): the 0-based indices i, in order,
\* of the entries of keep that are TRUE
RECURSIVE CopyIfIndices(_, _)
CopyIfIndices(i, keep) ==
    IF i > Len(keep) THEN <<>>
    ELSE (IF keep[i] THEN <<i - 1>> ELSE <<>>) \o CopyIfIndices(i + 1, keep)

\* squared distance of two points
Dist2(p, q) ==
    (p[1] - q[1]) * (p[1] - q[1]) + (p[2] - q[2]) * (p[2] - q[2])
        + (p[3] - q[3]) * (p[3] - q[3])

----------------------------------------------------------------------------
(* PointCloud::RemoveRadiusOutliers *)

\* KDTreeFlann::SearchRadius(points_, radius, max_nn): for query point i, the
\* number of entries of its row of tmp_indices that are >= 0, i.e. the
\* points within the radius, at most max_nn of them
RadiusCount(i, search_radius, max_nn) ==
    Min2(max_nn,
         Cardinality({j \in 1..Len(points_) :
                         Dist2(points_[i], points_[j]) < search_radius * search_radius}))

\* the check that opens RemoveRadiusOutliers
RadiusParamsIllegal(nb_points, search_radius) == nb_points < 1 \/ search_radius <= 0

\* the body of RemoveRadiusOutliers after the parameter check
RadiusBody(nb_points, search_radius) ==
    LET Keep(i) == RadiusCount(i, search_radius, nb_points + 1) > nb_points
        idx == CopyIfIndices(1, [i \in 1..Len(points_) |-> Keep(i)])
    IN  [indices |-> idx, cloud |-> SelectByIndexImpl(idx)]

RemoveRadiusOutliers(nb_points, search_radius, logError) ==
    LET illegal == RadiusParamsIllegal(nb_points, search_radius)
        pre == IF illegal THEN <<"LogError">> ELSE <<>>
    IN  /\ (~illegal => logError = "returns")
        /\ IF illegal /\ logError = "throws"
           THEN /\ events' = pre
                /\ ret_indices' = <<>>
                /\ output' = EmptyCloud
                /\ call' = [fn |-> "RemoveRadiusOutliers",
                            arg |-> <<nb_points, search_radius>>, outcome |-> "threw"]
           ELSE /\ events' = pre \o <<"kdtree.SetGeometry", "SearchRadius",
                                      "reduce_by_key", "copy_if", "SelectByIndex">>
                /\ LET body == RadiusBody(nb_points, search_radius)
                   IN  /\ ret_indices' = body.indices
                       /\ output' = body.cloud
                /\ call' = [fn |-> "RemoveRadiusOutliers",
                            arg |-> <<nb_points, search_radius>>, outcome |-> "returned"]
        /\ keys' = <<>>
        /\ UNCHANGED <<points_, normals_, colors_>>

----------------------------------------------------------------------------
(* PointCloud::RemoveStatisticalOutliers *)

\* exact fractions, kept in lowest terms
Abs(x) == IF x < 0 THEN -x ELSE x

RECURSIVE Gcd(_, _)
Gcd(a, b) == IF b = 0 THEN a ELSE Gcd(b, a % b)

Frac(n, d) ==
    LET g == Gcd(Abs(n), d)
    IN  [num |-> n \div g, den |-> d \div g]

FracAdd(a, b) == Frac(a.num * b.den + b.num * a.den, a.den * b.den)

FracSub(a, b) == Frac(a.num * b.den - b.num * a.den, a.den * b.den)

FracMul(a, b) == Frac(a.num * b.num, a.den * b.den)

\* denominators are positive throughout
FracLess(a, b) == a.num * b.den < b.num * a.den

FracZero == Frac(0, 1)

RECURSIVE InsertInt(_, _)
InsertInt(sorted, x) ==
    IF sorted = <<>> THEN <<x>>
    ELSE IF x < sorted[1] THEN <<x>> \o sorted
    ELSE <<sorted[1]>> \o InsertInt(Tail(sorted), x)

RECURSIVE SortInts(_)
SortInts(s) ==
    IF s = <<>> THEN <<>>
    ELSE InsertInt(SortInts(Tail(s)), s[1])

\* KDTreeFlann::SearchKNN(points_, knn): the squared distances of the knn
\* nearest points of query point i (itself among them), nearest first; a
\* cloud of fewer than knn points leaves the rest of the row invalid (-1
\* here: the reduction treats an infinite and a negative distance alike)
KnnRow(i, knn) ==
    LET d == SortInts([j \in 1..Len(points_) |-> Dist2(points_[i], points_[j])])
    IN  [m \in 1..knn |-> IF m <= Len(d) THEN d[m] ELSE -1]

\* the reduce_by_key lambda over one row: (count, sum) of the valid distances
RECURSIVE ReduceRow(_)
ReduceRow(row) ==
    IF row = <<>> THEN [cnt |-> 0, sum |-> 0]
    ELSE LET rest == ReduceRow(Tail(row))
         IN  IF row[1] < 0 THEN rest
             ELSE [cnt |-> rest.cnt + 1, sum |-> rest.sum + row[1]]

\* avg_distances after the transform: avg / cnt, or -1 when cnt = 0
AvgDistance(i, knn) ==
    LET r == ReduceRow(KnnRow(i, knn))
    IN  IF r.cnt > 0 THEN Frac(r.sum, r.cnt) ELSE Frac(-1, 1)

RECURSIVE FracSum(_)
FracSum(fs) == IF fs = <<>> THEN FracZero ELSE FracAdd(fs[1], FracSum(Tail(fs)))

\* x < cloud_mean + std_ratio * sqrt(sq_sum / (valid_distances - 1)), decided
\* without taking the root.  valid_distances = 1 divides by zero: 0/0 is NaN
\* and every comparison with it is false; s/0 with s > 0 is +infinity.
BelowThreshold(x, cloud_mean, std_ratio, sq_sum, valid_distances) ==
    LET d == FracSub(x, cloud_mean)
        dd == FracMul(d, d)
        r2 == Frac(std_ratio * std_ratio, 1)
    IN  IF valid_distances = 1
        THEN sq_sum.num > 0 /\ std_ratio > 0
        ELSE LET w == FracMul(r2, Frac(sq_sum.num, sq_sum.den * (valid_distances - 1)))
             IN  IF std_ratio >= 0
                 THEN d.num < 0 \/ FracLess(dd, w)
                 ELSE d.num < 0 /\ FracLess(w, dd)

\* the check that opens RemoveStatisticalOutliers
StatParamsIllegal(nb_neighbors, std_ratio) == nb_neighbors < 1 \/ std_ratio <= 0

\* the body of RemoveStatisticalOutliers after the parameter check
StatBody(nb_neighbors, std_ratio) ==
    LET n_pt == Len(points_)
        avg == [i \in 1..n_pt |-> AvgDistance(i, nb_neighbors)]
        nonneg(i) == IF avg[i].num >= 0 THEN avg[i] ELSE FracZero
        valid_distances == Cardinality({i \in 1..n_pt : avg[i].num >= 0})
        total == FracSum([i \in 1..n_pt |-> nonneg(i)])
        cloud_mean == Frac(total.num, total.den * valid_distances)
        sq(i) == IF avg[i].num > 0
                 THEN FracMul(FracSub(avg[i], cloud_mean), FracSub(avg[i], cloud_mean))
                 ELSE FracZero
        sq_sum == FracSum([i \in 1..n_pt |-> sq(i)])
        Keep(i) == /\ avg[i].num > 0
                   /\ BelowThreshold(avg[i], cloud_mean, std_ratio, sq_sum,
                                     valid_distances)
        idx == CopyIfIndices(1, [i \in 1..n_pt |-> Keep(i)])
    IN  IF n_pt = 0
        THEN [events |-> <<>>, indices |-> <<>>, cloud |-> EmptyCloud]
        ELSE IF valid_distances = 0
        THEN [events |-> <<"kdtree.SetGeometry", "SearchKNN", "reduce_by_key",
                           "divide by count">>,
              indices |-> <<>>, cloud |-> EmptyCloud]
        ELSE [events |-> <<"kdtree.SetGeometry", "SearchKNN", "reduce_by_key",
                           "divide by count", "divide by valid_distances",
                           "copy_if", "SelectByIndex">>,
              indices |-> idx, cloud |-> SelectByIndexImpl(idx)]

RemoveStatisticalOutliers(nb_neighbors, std_ratio, logError) ==
    LET illegal == StatParamsIllegal(nb_neighbors, std_ratio)
        pre == IF illegal THEN <<"LogError">> ELSE <<>>
    IN  /\ (~illegal => logError = "returns")
        /\ IF illegal /\ logError = "throws"
           THEN /\ events' = pre
                /\ ret_indices' = <<>>
                /\ output' = EmptyCloud
                /\ call' = [fn |-> "RemoveStatisticalOutliers",
                            arg |-> <<nb_neighbors, std_ratio>>, outcome |-> "threw"]
           ELSE LET body == StatBody(nb_neighbors, std_ratio)
                IN  /\ events' = pre \o body.events
                    /\ ret_indices' = body.indices
                    /\ output' = body.cloud
                /\ call' = [fn |-> "RemoveStatisticalOutliers",
                            arg |-> <<nb_neighbors, std_ratio>>, outcome |-> "returned"]
        /\ keys' = <<>>
        /\ UNCHANGED <<points_, normals_, colors_>>

----------------------------------------------------------------------------
(* io::ReadPointCloud / io::WritePointCloud *)

\* a std::string is the sequence of its characters
Auto == <<"a", "u", "t", "o">>

Ply == <<"p", "l", "y">>

Pcd == <<"p", "c", "d">>

\* ::tolower on the characters file names are made of
ToLower(c) ==
    CASE c = "P" -> "p"
      [] c = "L" -> "l"
      [] c = "Y" -> "y"
      [] c = "C" -> "c"
      [] c = "D" -> "d"
      [] OTHER -> c

\* std::string::find_last_of("."): the (1-based) position of the last dot, 0 if none
LastDot(name) ==
    IF \E i \in 1..Len(name) : name[i] = "."
    THEN CHOOSE i \in 1..Len(name) :
            name[i] = "." /\ \A j \in (i + 1)..Len(name) : name[j] # "."
    ELSE 0

\* utility::filesystem::GetFileExtensionInLowerCase: what follows the last
\* dot, lower-cased; empty without a dot or when a path separator follows it
GetFileExtensionInLowerCase(filename) ==
    LET dot == LastDot(filename)
    IN  IF dot = 0 THEN <<>>
        ELSE IF \E j \in (dot + 1)..Len(filename) : filename[j] \in {"/", "\\"}
        THEN <<>>
        ELSE [i \in 1..(Len(filename) - dot) |-> ToLower(filename[dot + i])]

\* file_extension_to_pointcloud_read_function
file_extension_to_pointcloud_read_function ==
    (Ply :> "ReadPointCloudFromPLY") @@ (Pcd :> "ReadPointCloudFromPCD")

\* file_extension_to_pointcloud_write_function
file_extension_to_pointcloud_write_function ==
    (Ply :> "WritePointCloudToPLY") @@ (Pcd :> "WritePointCloudToPCD")

\* a slip of the extension: the format is lower-cased like the file name is
ReadExtension_lower(filename, format) ==
    IF format = Auto THEN GetFileExtensionInLowerCase(filename)
    ELSE [i \in 1..Len(format) |-> ToLower(format[i])]

\* ReadPointCloud: filename_ext
ReadExtension(filename, format) ==
    IF format = Auto THEN GetFileExtensionInLowerCase(filename) ELSE format

\* PointCloud::RemoveNoneFinitePoints: a point is "nan", "inf" or finite
RemoveNoneFinitePoints(cloud, remove_nan_points, remove_infinite_points) ==
    SelectSeq(cloud, LAMBDA pt : ~ \/ (remove_nan_points /\ pt = "nan")
                                   \/ (remove_infinite_points /\ pt = "inf"))

\* The format readers are handed the cloud by reference: `success` and
\* `read` are what the reader makes of the file.
ReadPointCloud(filename, format, remove_nan_points, remove_infinite_points, success, read) ==
    LET filename_ext == ReadExtension(filename, format)
        map == file_extension_to_pointcloud_read_function
    IN  IF filename_ext = <<>> \/ filename_ext \notin DOMAIN map
        THEN /\ io_events' = <<"LogWarning">>
             /\ io_call' = [fn |-> "ReadPointCloud", filename |-> filename,
                            format |-> format, ret |-> FALSE]
             /\ UNCHANGED io_cloud
        ELSE /\ io_events' = <<map[filename_ext], "LogDebug">>
                    \o (IF remove_nan_points \/ remove_infinite_points
                        THEN <<"RemoveNoneFinitePoints">> ELSE <<>>)
             /\ io_cloud' =
                    IF remove_nan_points \/ remove_infinite_points
                    THEN RemoveNoneFinitePoints(read, remove_nan_points,
                                                remove_infinite_points)
                    ELSE read
             /\ io_call' = [fn |-> "ReadPointCloud", filename |-> filename,
                            format |-> format, ret |-> success]

WritePointCloud(filename, success) ==
    LET filename_ext == GetFileExtensionInLowerCase(filename)
        map == file_extension_to_pointcloud_write_function
    IN  /\ IF filename_ext = <<>> \/ filename_ext \notin DOMAIN map
           THEN /\ io_events' = <<"LogWarning">>
                /\ io_call' = [fn |-> "WritePointCloud", filename |-> filename,
                               format |-> <<>>, ret |-> FALSE]
           ELSE /\ io_events' = <<map[filename_ext], "LogDebug">>
                /\ io_call' = [fn |-> "WritePointCloud", filename |-> filename,
                               format |-> <<>>, ret |-> success]
        /\ UNCHANGED io_cloud

----------------------------------------------------------------------------
(* visualization::glsl::TexturePhongShader *)

\* OpenGL enumerators (gl.h)
GL_RED == 6403

GL_RGB == 6407

GL_RGBA == 6408

GL_UNSIGNED_BYTE == 5121

GL_UNSIGNED_SHORT == 5123

GL_FLOAT == 5126

\* gl_helper::texture_format_map_: number of channels -> GL format
texture_format_map_ == (1 :> GL_RED) @@ (3 :> GL_RGB) @@ (4 :> GL_RGBA)

\* gl_helper::texture_type_map_: bytes per channel -> GL type
texture_type_map_ ==
    (1 :> GL_UNSIGNED_BYTE) @@ (2 :> GL_UNSIGNED_SHORT) @@ (4 :> GL_FLOAT)

\* GetFormat returns a GLenum: its `return false` is the value 0
GetFormat(geometry) ==
    IF geometry.num_of_channels_ \notin DOMAIN texture_format_map_
    THEN 0
    ELSE texture_format_map_[geometry.num_of_channels_]

\* GetType, likewise
GetType(geometry) ==
    IF geometry.bytes_per_channel_ \notin DOMAIN texture_type_map_
    THEN 0
    ELSE texture_type_map_[geometry.bytes_per_channel_]

\* The shader, the GL context and the CUDA interop registry as one value the
\* statements of a member function transform in order; ev is the trace of
\* the calls made, each <<function, argument, argument>>.
ShaderState ==
    [sh |-> shader, bufs |-> gl_buffers, texs |-> gl_textures,
     reg |-> cuda_registered, unreg |-> cuda_unregistered,
     mapped |-> cuda_mapped, ev |-> <<>>]

Log(st, e) == [st EXCEPT !.ev = Append(@, e)]

\* the warnings of GetFormat and GetType
LogTextureWarnings(st, geometry) ==
    LET s1 == IF geometry.num_of_channels_ \notin DOMAIN texture_format_map_
              THEN Log(st, <<"LogWarning: Unknown texture format, abort!", 0, 0>>)
              ELSE st
    IN  IF geometry.bytes_per_channel_ \notin DOMAIN texture_type_map_
        THEN Log(s1, <<"LogWarning: Unknown texture type, abort!", 0, 0>>)
        ELSE s1

\* glGen* hands out a name not in use; the lowest one, as the drivers do
NewName(live) ==
    CHOOSE n \in 1..(Cardinality(live) + 1) :
        n \notin live /\ \A m \in 1..(n - 1) : m \in live

glGenTextures(st, member) ==
    LET n == NewName(st.texs)
    IN  Log([st EXCEPT !.texs = @ \cup {n}, !.sh[member] = n],
            <<"glGenTextures", n, 0>>)

glGenBuffers(st, member) ==
    LET n == NewName(st.bufs)
    IN  Log([st EXCEPT !.bufs = @ \cup {n}, !.sh[member] = n],
            <<"glGenBuffers", n, 0>>)

\* glDeleteBuffers / glDeleteTextures silently ignore names not in use
glDeleteBuffers(st, n) ==
    Log([st EXCEPT !.bufs = @ \ {n}], <<"glDeleteBuffers", n, 0>>)

glDeleteTextures(st, n) ==
    Log([st EXCEPT !.texs = @ \ {n}], <<"glDeleteTextures", n, 0>>)

\* cudaGraphicsGLRegisterBuffer(&cuda_graphics_resources_[slot], buffer):
\* a new handle, stored over whatever the slot held
cudaGraphicsGLRegisterBuffer(st, slot, member) ==
    LET h == Cardinality(st.reg) + Cardinality(st.unreg) + 1
    IN  Log([st EXCEPT
                !.reg = @ \cup {[handle |-> h, buffer |-> st.sh[member]]},
                !.sh.cuda_graphics_resources_[slot] = h],
            <<"cudaGraphicsGLRegisterBuffer", slot, h>>)

cudaGraphicsUnregisterResource(st, h) ==
    IF \E r \in st.reg : r.handle = h
    THEN Log([st EXCEPT !.reg = {r \in @ : r.handle # h},
                        !.unreg = @ \cup {h},
                        !.mapped = @ \ {h}],
             <<"cudaGraphicsUnregisterResource", h, 0>>)
    ELSE Log(st, <<"cudaErrorInvalidResourceHandle", h, 0>>)

cudaGraphicsMapResources(st) ==
    Log([st EXCEPT !.mapped =
            @ \cup {st.sh.cuda_graphics_resources_[i] : i \in 1..4}],
        <<"cudaGraphicsMapResources", 4, 0>>)

\* ShaderWrapper::Unmap(4)
Unmap(st) ==
    Log([st EXCEPT !.mapped =
            @ \ {st.sh.cuda_graphics_resources_[i] : i \in 1..4}],
        <<"cudaGraphicsUnmapResources", 4, 0>>)

\* TexturePhongShader::UnbindGeometry(finalize); finalize defaults to false
UnbindGeometry(st, finalize) ==
    IF st.sh.bound_
    THEN LET u1 == IF ~finalize
                   THEN cudaGraphicsUnregisterResource(
                          cudaGraphicsUnregisterResource(
                            cudaGraphicsUnregisterResource(
                              cudaGraphicsUnregisterResource(st,
                                st.sh.cuda_graphics_resources_[1]),
                              st.sh.cuda_graphics_resources_[2]),
                            st.sh.cuda_graphics_resources_[3]),
                          st.sh.cuda_graphics_resources_[4])
                   ELSE st
             u2 == glDeleteBuffers(u1, st.sh.diffuse_texture_buffer_)
             u3 == glDeleteBuffers(u2, st.sh.vertex_position_buffer_)
             u4 == glDeleteBuffers(u3, st.sh.vertex_normal_buffer_)
             u5 == glDeleteBuffers(u4, st.sh.vertex_uv_buffer_)
             u6 == glDeleteTextures(u5, st.sh.diffuse_texture_buffer_)
         IN  [u6 EXCEPT !.sh.bound_ = FALSE]
    ELSE st

\* TexturePhongShaderForTriangleMesh::PrepareBinding
PrepareBinding(geometry) ==
    /\ geometry.is_triangle_mesh
    /\ geometry.has_triangles
    /\ geometry.has_normals

\* TexturePhongShaderForTriangleMesh::PrepareRendering
PrepareRendering(geometry) == geometry.is_triangle_mesh

\* TexturePhongShader::BindGeometry: the state it leaves and what it returns
BindGeometry(st, geometry) ==
    LET b0 == UnbindGeometry(st, FALSE)
        b1 == glGenTextures(b0, "diffuse_texture_buffer_")
        b2 == Log(LogTextureWarnings(b1, geometry),
                  <<"glTexImage2D", GetFormat(geometry), GetType(geometry)>>)
        b3 == cudaGraphicsGLRegisterBuffer(
                  glGenBuffers(b2, "vertex_position_buffer_"),
                  1, "vertex_position_buffer_")
        b4 == cudaGraphicsGLRegisterBuffer(
                  glGenBuffers(b3, "vertex_normal_buffer_"),
                  2, "vertex_normal_buffer_")
        b5 == cudaGraphicsGLRegisterBuffer(
                  glGenBuffers(b4, "vertex_uv_buffer_"),
                  3, "vertex_uv_buffer_")
        b6 == cudaGraphicsGLRegisterBuffer(
                  glGenBuffers(b5, "diffuse_texture_pixel_buffer_"),
                  4, "diffuse_texture_pixel_buffer_")
        b7 == cudaGraphicsMapResources(b6)
    IN  IF ~PrepareBinding(geometry)
        THEN [st |-> Log(b7, <<"PrintShaderWarning", 0, 0>>), ret |-> FALSE]
        ELSE [st |-> [Unmap(b7) EXCEPT !.sh.bound_ = TRUE], ret |-> TRUE]

\* TexturePhongShader::RenderGeometry
RenderGeometry(st, geometry) ==
    IF ~PrepareRendering(geometry)
    THEN [st |-> Log(st, <<"PrintShaderWarning", 0, 0>>), ret |-> FALSE]
    ELSE [st |-> Log(Log(LogTextureWarnings(st, geometry),
                         <<"glTexSubImage2D", GetFormat(geometry),
                           GetType(geometry)>>),
                     <<"glDrawArrays", 0, 0>>),
          ret |-> TRUE]

\* TexturePhongShader::Release
Release(st) == Log(UnbindGeometry(st, TRUE), <<"ReleaseProgram", 0, 0>>)

\* the call has run: its effects and its record
Commit(fn, geometry, r) ==
    /\ shader' = r.st.sh
    /\ gl_buffers' = r.st.bufs
    /\ gl_textures' = r.st.texs
    /\ cuda_registered' = r.st.reg
    /\ cuda_unregistered' = r.st.unreg
    /\ cuda_mapped' = r.st.mapped
    /\ shader_events' = r.st.ev
    /\ shader_call' = [fn |-> fn, geometry |-> geometry, ret |-> r.ret]

----------------------------------------------------------------------------
(* PointCloud::SelectByIndex *)

\* every index of the list is below points_.size()
IndicesInRange(indices) == \A i \in 1..Len(indices) : indices[i] < Len(points_)

\* thrust::gather with an index at or past the end of src: the read is out
\* of bounds and yields whatever lies there
GatherOutOfBounds(indices, src, garbage) ==
    [i \in 1..Len(indices) |->
        IF indices[i] < Len(src) THEN src[indices[i] + 1] ELSE garbage]

\* thrust::set_difference(a, b) on sorted ranges: the elements of a, in
\* order, that are not matched one for one by an equal element of b
RECURSIVE set_difference(_, _)
set_difference(a, b) ==
    IF a = <<>> THEN <<>>
    ELSE IF b = <<>> THEN a
    ELSE IF a[1] < b[1] THEN <<a[1]>> \o set_difference(Tail(a), b)
    ELSE IF b[1] < a[1] THEN set_difference(a, Tail(b))
    ELSE set_difference(Tail(a), Tail(b))

\* thrust::make_counting_iterator(0) .. make_counting_iterator(n)
CountingRange(n) == [i \in 1..n |-> i - 1]

\* invert = false: SelectByIndexImpl(*this, *output, indices).  An index at
\* or past the end makes the gather read out of bounds: the call crashes or
\* returns what it read.
SelectDirect(indices, ub, garbage) ==
    /\ (IndicesInRange(indices) => ub = "returned" /\ garbage = Zero3)
    /\ events' = <<"gather">> \o (IF IndicesInRange(indices) THEN <<>>
                                  ELSE <<"read past end">>)
    /\ ret_indices' = indices
    /\ output' =
          IF IndicesInRange(indices) THEN SelectByIndexImpl(indices)
          ELSE IF ub = "crashed" THEN EmptyCloud
          ELSE [points |-> GatherOutOfBounds(indices, points_, garbage),
                normals |-> IF HasNormals
                            THEN GatherOutOfBounds(indices, normals_, garbage)
                            ELSE <<>>,
                colors |-> IF HasColors
                           THEN GatherOutOfBounds(indices, colors_, garbage)
                           ELSE <<>>]
    /\ call' = [fn |-> "SelectByIndex", arg |-> indices, invert |-> FALSE,
                outcome |-> ub]

\* invert = true: n_out = points_.size() - indices.size() in size_t, sort,
\* set_difference into inv_indices(n_out), SelectByIndexImpl.  More indices
\* than points wrap n_out around and the allocation throws; a difference
\* longer than n_out is written past the end of inv_indices: the call
\* crashes or goes on with the n_out elements that fit.
SelectInverted(indices, ub) ==
    LET n == Len(points_)
        n_out == n - Len(indices)
        diff == set_difference(CountingRange(n), SortInts(indices))
        over == n_out >= 0 /\ Len(diff) > n_out
        inv_indices == SubSeq(diff, 1, n_out)
    IN  /\ (~over => ub = "returned")
        /\ IF n_out < 0
           THEN /\ events' = <<"bad_alloc">>
                /\ ret_indices' = <<>>
                /\ output' = EmptyCloud
                /\ call' = [fn |-> "SelectByIndex", arg |-> indices,
                            invert |-> TRUE, outcome |-> "threw"]
           ELSE /\ events' = <<"sort", "set_difference">>
                      \o (IF over THEN <<"write past end">> ELSE <<>>)
                      \o (IF ub = "crashed" THEN <<>> ELSE <<"gather">>)
                /\ ret_indices' = IF ub = "crashed" THEN <<>> ELSE inv_indices
                /\ output' = IF ub = "crashed" THEN EmptyCloud
                             ELSE SelectByIndexImpl(inv_indices)
                /\ call' = [fn |-> "SelectByIndex", arg |-> indices,
                            invert |-> TRUE, outcome |-> ub]

SelectByIndex(indices, invert, ub, garbage) ==
    /\ IF invert
       THEN garbage = Zero3 /\ SelectInverted(indices, ub)
       ELSE SelectDirect(indices, ub, garbage)
    /\ keys' = <<>>
    /\ UNCHANGED <<points_, normals_, colors_>>

----------------------------------------------------------------------------
(* geometry::Graph factories *)

NUM_OFFSET == <<8, 26>>

voxel_offset ==
    << <<1, 0, 0>>,  <<-1, 0, 0>>,  <<0, 1, 0>>,   <<0, -1, 0>>,  <<0, 0, 1>>,
       <<0, 0, -1>>, <<1, 1, 0>>,   <<1, -1, 0>>,  <<-1, 1, 0>>,  <<-1, -1, 0>>,
       <<1, 0, 1>>,  <<1, 0, -1>>,  <<-1, 0, 1>>,  <<-1, 0, -1>>, <<0, 1, 1>>,
       <<0, 1, -1>>, <<0, -1, 1>>,  <<0, -1, -1>>, <<1, 1, 1>>,   <<-1, -1, -1>>,
       <<-1, 1, 1>>, <<1, -1, -1>>, <<1, -1, 1>>,  <<-1, 1, -1>>, <<-1, -1, 1>>,
       <<1, 1, -1>> >>

voxel_offset_2d ==
    << <<1, 0>>, <<-1, 0>>, <<0, 1>>,  <<0, -1>>,
       <<1, 1>>, <<1, -1>>, <<-1, 1>>, <<-1, -1>> >>

\* std::make_shared<Graph<Dim>>()
EmptyGraph == [points_ |-> <<>>, lines_ |-> <<>>, constructed |-> FALSE]

\* Graph::ConstructGraph, recorded as having run on the graph
ConstructGraph(out) == [out EXCEPT !.constructed = TRUE]

\* min_bound + index * steps, per axis, in exact arithmetic
GridPoint(Dim, min_bound, steps, index) ==
    [i \in 1..Dim |->
        FracAdd(Frac(min_bound[i], 1), FracMul(Frac(index[i], 1), steps[i]))]

create_dense_grid_points_functor(Dim, resolutions, min_bound, steps, idx) ==
    IF Dim = 3
    THEN LET x == idx \div (resolutions[2] * resolutions[3])
             yz == idx % (resolutions[2] * resolutions[3])
             y == yz \div resolutions[3]
             z == yz % resolutions[3]
         IN  GridPoint(3, min_bound, steps, <<x, y, z>>)
    ELSE LET x == idx \div resolutions[2]
             y == idx % resolutions[2]
         IN  GridPoint(2, min_bound, steps, <<x, y>>)

create_dense_grid_lines_functor(Dim, resolutions, idx) ==
    IF Dim = 3
    THEN LET x == idx \div (resolutions[2] * resolutions[3] * 26)
             yzk == idx % (resolutions[2] * resolutions[3] * 26)
             y == yzk \div (resolutions[3] * 26)
             zk == yzk % (resolutions[3] * 26)
             z == zk \div 26
             k == zk % 26
             gidx == <<x + voxel_offset[k + 1][1], y + voxel_offset[k + 1][2],
                       z + voxel_offset[k + 1][3]>>
         IN  IF \E a \in 1..3 : gidx[a] < 0 \/ gidx[a] >= resolutions[a]
             THEN <<-1, -1>>
             ELSE <<x * resolutions[2] * resolutions[3] + y * resolutions[3] + z,
                    gidx[1] * resolutions[2] * resolutions[3]
                        + gidx[2] * resolutions[3] + gidx[3]>>
    ELSE LET x == idx \div (resolutions[2] * 8)
             yk == idx % (resolutions[2] * 8)
             y == yk \div 8
             k == yk % 8
             gidx == <<x + voxel_offset_2d[k + 1][1], y + voxel_offset_2d[k + 1][2]>>
         IN  IF \E a \in 1..2 : gidx[a] < 0 \/ gidx[a] >= resolutions[a]
             THEN <<-1, -1>>
             ELSE <<x * resolutions[2] + y, gidx[1] * resolutions[2] + gidx[2]>>

\* resolutions.prod()
Prod(Dim, resolutions) ==
    IF Dim = 3 THEN resolutions[1] * resolutions[2] * resolutions[3]
    ELSE resolutions[1] * resolutions[2]

\* Graph<Dim>::CreateFromAxisAlignedBoundingBox(min_bound, max_bound, resolutions)
CreateFromBounds(Dim, min_bound, max_bound, resolutions) ==
    LET steps == [i \in 1..Dim |-> Frac(max_bound[i] - min_bound[i], resolutions[i])]
        n_points == Prod(Dim, resolutions)
        points == [p \in 1..n_points |->
                     create_dense_grid_points_functor(Dim, resolutions, min_bound,
                                                      steps, p - 1)]
        lines == [l \in 1..(n_points * NUM_OFFSET[Dim - 1]) |->
                     create_dense_grid_lines_functor(Dim, resolutions, l - 1)]
        kept == SelectSeq(lines, LAMBDA l : ~(l[1] < 0))
    IN  ConstructGraph([EmptyGraph EXCEPT !.points_ = points, !.lines_ = kept])

BoundsEvents == <<"transform points", "transform lines", "remove_if", "ConstructGraph">>

\* TriangleMesh::ComputeEdgeList: both directions of every triangle side,
\* sorted, each once
EdgeLess(a, b) == a[1] < b[1] \/ (a[1] = b[1] /\ a[2] < b[2])

RECURSIVE SortEdges(_)
SortEdges(edges) ==
    IF edges = {} THEN <<>>
    ELSE LET e == CHOOSE x \in edges : \A y \in edges : x = y \/ EdgeLess(x, y)
         IN  <<e>> \o SortEdges(edges \ {e})

ComputeEdgeList(triangles) ==
    SortEdges(UNION {{<<t[a], t[b]>> : a, b \in 1..3} \ {<<t[a], t[a]>> : a \in 1..3} :
                        t \in {triangles[k] : k \in 1..Len(triangles)}})

\* Graph<3>::CreateFromTriangleMesh
Graph3_CreateFromTriangleMesh(input) ==
    /\ graph_out' =
          <<ConstructGraph(
              [EmptyGraph EXCEPT
                  !.points_ = input.vertices_,
                  !.lines_ = IF input.edge_list_ # <<>>
                             THEN input.edge_list_
                             ELSE ComputeEdgeList(input.triangles_)])>>
    /\ graph_events' =
          <<"input.vertices_", "input.HasEdgeList">>
          \o (IF input.edge_list_ # <<>>
              THEN <<"input.edge_list_">>
              ELSE <<"input.triangles_", "ComputeEdgeList">>)
          \o <<"ConstructGraph">>
    /\ graph_call' = [fn |-> "Graph<3>::CreateFromTriangleMesh",
                      input |-> input, outcome |-> "returned"]

\* Graph<2>::CreateFromTriangleMesh
Graph2_CreateFromTriangleMesh(input, logError) ==
    /\ graph_events' = <<"LogError">>
    /\ graph_out' = IF logError = "throws" THEN <<>> ELSE <<EmptyGraph>>
    /\ graph_call' = [fn |-> "Graph<2>::CreateFromTriangleMesh", input |-> input,
                      outcome |-> IF logError = "throws" THEN "thrown" ELSE "returned"]

\* Graph<3>::CreateFromAxisAlignedBoundingBox(bbox, resolutions)
Graph3_CreateFromAxisAlignedBoundingBox(bbox, resolutions) ==
    /\ graph_out' = <<CreateFromBounds(3, bbox.min_bound_, bbox.max_bound_, resolutions)>>
    /\ graph_events' = <<"bbox.min_bound_", "bbox.max_bound_">> \o BoundsEvents
    /\ graph_call' = [fn |-> "Graph<3>::CreateFromAxisAlignedBoundingBox",
                      input |-> [bbox |-> bbox, resolutions |-> resolutions],
                      outcome |-> "returned"]

\* a Graph<2> version written like the Graph<3> one
Graph2_CreateFromAxisAlignedBoundingBox_delegating(bbox, resolutions, logError) ==
    /\ graph_out' = <<CreateFromBounds(2, bbox.min_bound_, bbox.max_bound_, resolutions)>>
    /\ graph_events' = <<"bbox.min_bound_", "bbox.max_bound_">> \o BoundsEvents
    /\ graph_call' = [fn |-> "Graph<2>::CreateFromAxisAlignedBoundingBox",
                      input |-> [bbox |-> bbox, resolutions |-> resolutions],
                      outcome |-> "returned"]

\* Graph<2>::CreateFromAxisAlignedBoundingBox(bbox, resolutions)
Graph2_CreateFromAxisAlignedBoundingBox(bbox, resolutions, logError) ==
    /\ graph_events' = <<"LogError">>
    /\ graph_out' = IF logError = "throws" THEN <<>> ELSE <<EmptyGraph>>
    /\ graph_call' = [fn |-> "Graph<2>::CreateFromAxisAlignedBoundingBox",
                      input |-> [bbox |-> bbox, resolutions |-> resolutions],
                      outcome |-> IF logError = "throws" THEN "thrown" ELSE "returned"]

\* Graph<2>::CreateFromAxisAlignedBoundingBox(min_bound, max_bound, resolutions),
\* the explicit instantiation of the generic factory
Graph2_CreateFromBounds(min_bound, max_bound, resolutions) ==
    /\ graph_out' = <<CreateFromBounds(2, min_bound, max_bound, resolutions)>>
    /\ graph_events' = BoundsEvents
    /\ graph_call' = [fn |-> "Graph<2>::CreateFromAxisAlignedBoundingBox(min, max)",
                      input |-> [min_bound |-> min_bound, max_bound |-> max_bound,
                                 resolutions |-> resolutions],
                      outcome |-> "returned"]

----------------------------------------------------------------------------
(* Initial states and the next-state relation *)

Coords == 0..MaxCoord

\* the points a cloud is built from: the x axis in full, and one step along
\* each of the other axes
PointSet ==
    {<<x, 0, 0>> : x \in Coords} \cup {<<0, 1, 0>>, <<0, 0, 1>>, <<1, 1, 1>>}

PointSeqs == UNION {[1..n -> PointSet] : n \in 0..MaxPoints}

\* the normal and the colour given to the point at (1-based) index i
NormalAt(i) == <<1, 0, i>>

ColorAt(i) == <<i, 1, 0>>

InitCloud ==
    /\ points_ \in PointSeqs
    /\ normals_ \in {<<>>, [i \in 1..Len(points_) |-> NormalAt(i)]}
    /\ colors_ \in {<<>>, [i \in 1..Len(points_) |-> ColorAt(i)]}

NoCall == [fn |-> "none", arg |-> 0, outcome |-> "returned"]

\* a constructed point cloud, no call made
InitPC ==
    /\ InitCloud
    /\ call = NoCall
    /\ events = <<>>
    /\ keys = <<>>
    /\ ret_indices = <<>>
    /\ output = EmptyCloud

\* no point cloud in use
NoPC ==
    /\ points_ = <<>>
    /\ normals_ = <<>>
    /\ colors_ = <<>>
    /\ call = NoCall
    /\ events = <<>>
    /\ keys = <<>>
    /\ ret_indices = <<>>
    /\ output = EmptyCloud

\* the ranges a strided_range is built over: base, base + 1, ...
RangeSeqs ==
    {[i \in 1..n |-> b + i - 1] : n \in 0..MaxRangeLen, b \in 0..MaxRangeBase}

InitRange ==
    /\ range_src \in RangeSeqs
    /\ range_stride = 0
    /\ range_reads = <<>>
    /\ range_out = <<>>

\* no strided_range in use
NoRange ==
    /\ range_src = <<>>
    /\ range_stride = 0
    /\ range_reads = <<>>
    /\ range_out = <<>>

\* the file names and formats the io functions are called with
FileNames ==
    {<<"a", ".", "p", "l", "y">>,
     <<"a", ".", "P", "L", "Y">>,
     <<"a", ".", "p", "c", "d">>,
     <<"a", ".", "P", "c", "D">>,
     <<"a", ".", "x", "y", "z">>,
     <<"a", ".", "p", "l", "y", "x">>,
     <<"a", ".">>,
     <<"a">>,
     <<"d", ".", "p", "l", "y", "/", "a">>}

Formats == {Auto, Ply, Pcd, <<"P", "L", "Y">>, <<"x", "y", "z">>, <<>>}

\* the clouds a file may hold
FileClouds == {<<>>, <<"p">>, <<"p", "nan", "inf">>}

NoIOCall == [fn |-> "none", filename |-> <<>>, format |-> <<>>, ret |-> FALSE]

InitIO ==
    /\ io_cloud \in {<<>>, <<"nan", "p">>}
    /\ io_call = NoIOCall
    /\ io_events = <<>>

\* no io in use
NoIO ==
    /\ io_cloud = <<>>
    /\ io_call = NoIOCall
    /\ io_events = <<>>

\* the geometries the shader is handed: textured meshes with a known or an
\* unknown texture layout, meshes PrepareBinding refuses, and geometries of
\* another type (whose texture fields are what the cast happens to read)
Geometries ==
    {[is_triangle_mesh |-> TRUE, has_triangles |-> TRUE, has_normals |-> TRUE,
      num_of_channels_ |-> c, bytes_per_channel_ |-> b] :
        c \in {2, 3}, b \in {1, 3}}
    \cup
    {[is_triangle_mesh |-> TRUE, has_triangles |-> t, has_normals |-> n,
      num_of_channels_ |-> 3, bytes_per_channel_ |-> 1] :
        t \in BOOLEAN, n \in BOOLEAN}
    \cup
    {[is_triangle_mesh |-> FALSE, has_triangles |-> FALSE, has_normals |-> FALSE,
      num_of_channels_ |-> c, bytes_per_channel_ |-> 1] : c \in {2, 3}}

NoGeometry ==
    [is_triangle_mesh |-> FALSE, has_triangles |-> FALSE, has_normals |-> FALSE,
     num_of_channels_ |-> 0, bytes_per_channel_ |-> 0]

NoShaderCall == [fn |-> "none", geometry |-> NoGeometry, ret |-> FALSE]

\* a shader that has bound nothing, in a context without objects
NewShader ==
    [bound_ |-> FALSE,
     cuda_graphics_resources_ |-> <<0, 0, 0, 0>>,
     diffuse_texture_buffer_ |-> 0,
     diffuse_texture_pixel_buffer_ |-> 0,
     vertex_position_buffer_ |-> 0,
     vertex_normal_buffer_ |-> 0,
     vertex_uv_buffer_ |-> 0]

NoShader ==
    /\ shader = NewShader
    /\ gl_buffers = {}
    /\ gl_textures = {}
    /\ cuda_registered = {}
    /\ cuda_unregistered = {}
    /\ cuda_mapped = {}
    /\ shader_call = NoShaderCall
    /\ shader_events = <<>>

\* ... or in a context where another client already holds buffer 1 or
\* texture 1
InitShader ==
    /\ shader = NewShader
    /\ gl_buffers \in {{}, {1}}
    /\ gl_textures \in {{}, {1}}
    /\ cuda_registered = {}
    /\ cuda_unregistered = {}
    /\ cuda_mapped = {}
    /\ shader_call = NoShaderCall
    /\ shader_events = <<>>

\* the meshes and boxes the Graph factories are handed
TriangleMeshes ==
    {[vertices_ |-> <<>>, triangles_ |-> <<>>, edge_list_ |-> <<>>],
     [vertices_ |-> <<<<0, 0, 0>>, <<1, 0, 0>>, <<0, 1, 0>>>>,
      triangles_ |-> <<<<0, 1, 2>>>>, edge_list_ |-> <<>>],
     [vertices_ |-> <<<<0, 0, 0>>, <<1, 0, 0>>, <<0, 1, 0>>>>,
      triangles_ |-> <<<<0, 1, 2>>>>, edge_list_ |-> <<<<0, 1>>, <<1, 2>>>>],
     [vertices_ |-> <<<<0, 0, 0>>, <<1, 0, 0>>, <<0, 1, 0>>, <<1, 1, 0>>>>,
      triangles_ |-> <<<<0, 1, 2>>, <<1, 3, 2>>>>, edge_list_ |-> <<>>]}

Boxes ==
    {[min_bound_ |-> <<0, 0, 0>>, max_bound_ |-> <<m, m, 1>>] : m \in 1..MaxExtent}

Resolutions == [1..3 -> 0..MaxRes]

NoGraph ==
    /\ graph_call = [fn |-> "none", input |-> <<>>, outcome |-> "returned"]
    /\ graph_out = <<>>
    /\ graph_events = <<>>

Init == InitPC /\ NoRange /\ NoIO /\ NoShader /\ NoGraph

\* the caller drops the value the last call returned; the cloud is then
\* ready for the next call
DropResult ==
    /\ call.fn # "none"
    /\ call' = NoCall
    /\ events' = <<>>
    /\ keys' = <<>>
    /\ ret_indices' = <<>>
    /\ output' = EmptyCloud
    /\ UNCHANGED <<points_, normals_, colors_>>
    /\ UNCHANGED <<rangeVars, ioVars, shaderVars, graphVars>>

Idle == call.fn = "none"

DoUniformDownSample ==
    \E k \in 0..MaxStride, e \in LogErrorOutcomes, o \in {"returned", "crashed"} :
        Idle /\ UniformDownSample(k, e, o) /\ UNCHANGED <<rangeVars, ioVars, shaderVars, graphVars>>

DoVoxelDownSample ==
    \E v \in -1..MaxVoxelSize : Idle /\ VoxelDownSample(v) /\ UNCHANGED <<rangeVars, ioVars, shaderVars, graphVars>>

DoRemoveRadiusOutliers ==
    \E nb \in 0..MaxNeighbors, r \in 0..MaxRadius, e \in LogErrorOutcomes :
        Idle /\ RemoveRadiusOutliers(nb, r, e) /\ UNCHANGED <<rangeVars, ioVars, shaderVars, graphVars>>

DoRemoveStatisticalOutliers ==
    \E nb \in 0..MaxNeighbors, r \in 0..MaxStdRatio, e \in LogErrorOutcomes :
        Idle /\ RemoveStatisticalOutliers(nb, r, e) /\ UNCHANGED <<rangeVars, ioVars, shaderVars, graphVars>>

\* down-sampling of a point cloud
Next ==
    \/ DoUniformDownSample
    \/ DoVoxelDownSample
    \/ DropResult

Spec == Init /\ [][Next]_vars

\* outlier removal on a point cloud
NextOutlier ==
    \/ DoRemoveRadiusOutliers
    \/ DoRemoveStatisticalOutliers
    \/ DropResult

SpecOutlier == Init /\ [][NextOutlier]_vars

\* thrust::strided_range on its own
DoStridedRange ==
    \E s \in 1..MaxStride : StridedRange(s) /\ UNCHANGED <<pcVars, ioVars, shaderVars, graphVars>>

NextRange == DoStridedRange

\* point cloud io
DoReadPointCloud ==
    \E f \in FileNames, fmt \in Formats, rn \in BOOLEAN, ri \in BOOLEAN,
       ok \in BOOLEAN, c \in FileClouds \cup {io_cloud} :
        ReadPointCloud(f, fmt, rn, ri, ok, c) /\ UNCHANGED <<pcVars, rangeVars, shaderVars, graphVars>>

DoWritePointCloud ==
    \E f \in FileNames, ok \in BOOLEAN :
        WritePointCloud(f, ok) /\ UNCHANGED <<pcVars, rangeVars, shaderVars, graphVars>>

NextIO ==
    \/ DoReadPointCloud
    \/ DoWritePointCloud

InitIOOnly == NoPC /\ NoRange /\ InitIO /\ NoShader /\ NoGraph

SpecIO == InitIOOnly /\ [][NextIO]_vars

\* the shader
BindsMade == (Cardinality(cuda_registered) + Cardinality(cuda_unregistered)) \div 4

DoBindGeometry ==
    /\ BindsMade < MaxBinds
    /\ \E g \in Geometries : Commit("BindGeometry", g, BindGeometry(ShaderState, g))
    /\ UNCHANGED <<pcVars, rangeVars, ioVars, graphVars>>

\* ShaderWrapper::Render renders what has been bound
DoRenderGeometry ==
    /\ shader.bound_
    /\ \E g \in Geometries : Commit("RenderGeometry", g, RenderGeometry(ShaderState, g))
    /\ UNCHANGED <<pcVars, rangeVars, ioVars, graphVars>>

DoUnbindGeometry ==
    /\ \E finalize \in BOOLEAN :
          Commit("UnbindGeometry", NoGeometry,
                 [st |-> UnbindGeometry(ShaderState, finalize), ret |-> TRUE])
    /\ UNCHANGED <<pcVars, rangeVars, ioVars, graphVars>>

DoRelease ==
    /\ Commit("Release", NoGeometry, [st |-> Release(ShaderState), ret |-> TRUE])
    /\ UNCHANGED <<pcVars, rangeVars, ioVars, graphVars>>

NextShader ==
    \/ DoBindGeometry
    \/ DoRenderGeometry
    \/ DoUnbindGeometry
    \/ DoRelease

InitShaderOnly == NoPC /\ NoRange /\ NoIO /\ InitShader /\ NoGraph

SpecShader == InitShaderOnly /\ [][NextShader]_vars

\* the Graph factories
DoGraph3FromMesh ==
    \E input \in TriangleMeshes :
        Graph3_CreateFromTriangleMesh(input) /\ UNCHANGED <<pcVars, rangeVars, ioVars, shaderVars>>

DoGraph2FromMesh ==
    \E input \in TriangleMeshes, e \in LogErrorOutcomes :
        Graph2_CreateFromTriangleMesh(input, e) /\ UNCHANGED <<pcVars, rangeVars, ioVars, shaderVars>>

DoGraph3FromBox ==
    \E bbox \in Boxes, res \in Resolutions :
        Graph3_CreateFromAxisAlignedBoundingBox(bbox, res) /\ UNCHANGED <<pcVars, rangeVars, ioVars, shaderVars>>

DoGraph2FromBox ==
    \E bbox \in Boxes, res \in Resolutions, e \in LogErrorOutcomes :
        Graph2_CreateFromAxisAlignedBoundingBox(bbox, res, e) /\ UNCHANGED <<pcVars, rangeVars, ioVars, shaderVars>>

DoGraph2FromBounds ==
    \E bbox \in Boxes, res \in [1..2 -> 0..MaxRes] :
        Graph2_CreateFromBounds(<<bbox.min_bound_[1], bbox.min_bound_[2]>>, <<bbox.max_bound_[1], bbox.max_bound_[2]>>, res) /\ UNCHANGED <<pcVars, rangeVars, ioVars, shaderVars>>

NextGraph ==
    \/ DoGraph3FromMesh
    \/ DoGraph2FromMesh
    \/ DoGraph3FromBox
    \/ DoGraph2FromBox
    \/ DoGraph2FromBounds

InitGraphOnly == NoPC /\ NoRange /\ NoIO /\ NoShader /\ NoGraph

SpecGraph == InitGraphOnly /\ [][NextGraph]_vars

\* index selection on a point cloud whose points are all different, so that
\* a point of the output tells which input point it is
IndexLists == UNION {[1..m -> 0..MaxPoints] : m \in 0..MaxIndices}

Garbage == {<<-1, -1, -1>>, Zero3}

InitSelect ==
    /\ points_ \in {[i \in 1..n |-> <<i, 0, 0>>] : n \in 0..MaxPoints}
    /\ normals_ \in {<<>>, [i \in 1..Len(points_) |-> NormalAt(i)]}
    /\ colors_ \in {<<>>, [i \in 1..Len(points_) |-> ColorAt(i)]}
    /\ call = NoCall
    /\ events = <<>>
    /\ keys = <<>>
    /\ ret_indices = <<>>
    /\ output = EmptyCloud

DoSelectByIndex ==
    \E indices \in IndexLists, invert \in BOOLEAN, ub \in {"returned", "crashed"}, g \in Garbage :
        Idle /\ SelectByIndex(indices, invert, ub, g) /\ UNCHANGED <<rangeVars, ioVars, shaderVars, graphVars>>

NextSelect ==
    \/ DoSelectByIndex
    \/ DropResult

InitSelectOnly == InitSelect /\ NoRange /\ NoIO /\ NoShader /\ NoGraph

SpecSelect == InitSelectOnly /\ [][NextSelect]_vars

InitRangeOnly == NoPC /\ InitRange /\ NoIO /\ NoShader /\ NoGraph

SpecRange == InitRangeOnly /\ [][NextRange]_vars

----------------------------------------------------------------------------
(* Claims about PointCloud::VoxelDownSample *)

RECURSIVE SumPoints(_)
SumPoints(S) ==
    IF S = {} THEN Zero3
    ELSE LET i == CHOOSE x \in S : TRUE
         IN  VecAdd(points_[i], SumPoints(S \ {i}))

\* the voxel key as the claim words it:
\* floor((p - (min_bound - voxel_size/2)) / voxel_size), per axis
ClaimKey(p, voxel_size) ==
    [i \in Axes |-> (2 * (p[i] - GetMinBound[i]) + voxel_size) \div (2 * voxel_size)]

\* the size check as the claim words it: voxel_size * INT_MAX against the
\* largest axis extent of the bounding box padded by voxel_size/2 on each side
ClaimTooSmall(voxel_size) ==
    voxel_size * IntMax <
        MaxCoeff([i \in Axes |-> GetMaxBound[i] - GetMinBound[i]]) + voxel_size

VoxelAccepted ==
    /\ call.fn = "VoxelDownSample"
    /\ call.arg > 0
    /\ ~ClaimTooSmall(call.arg)

VoxelRejected ==
    /\ call.fn = "VoxelDownSample"
    /\ (call.arg <= 0 \/ ClaimTooSmall(call.arg))

\* C1: when the size check passes, VoxelDownSample returns one output point
\* per occupied voxel: the points that share a voxel key (and no others) are
\* reduced into one output point, the outputs are as many as the distinct
\* keys, and never more than the input points.
C1_OnePointPerVoxel ==
    VoxelAccepted =>
        LET v == call.arg
            idx == 1..Len(points_)
            K == {ClaimKey(points_[i], v) : i \in idx}
            Class(k) == {i \in idx : ClaimKey(points_[i], v) = k}
            Rank(k) == 1 + Cardinality({k2 \in K : KeyLess(k2, k)})
        IN  /\ Len(output.points) = Cardinality(K)
            /\ Len(output.points) <= Len(points_)
            /\ \A k \in K :
                  output.points[Rank(k)] =
                      [num |-> SumPoints(Class(k)), den |-> Cardinality(Class(k))]

\* three points, two of them in one voxel
C1_Witness ==
    /\ VoxelAccepted
    /\ Len(points_) = 3
    /\ Len(output.points) = 2

\* C3: VoxelDownSample returns an empty cloud and computes no voxel key when
\* voxel_size <= 0 or voxel_size * INT_MAX is below the padded extent, and
\* the call leaves the input cloud as it was.
C3_RejectedState ==
    VoxelRejected =>
        /\ output = EmptyCloud
        /\ keys = <<>>
        /\ \A e \in 1..Len(events) : events[e] # "compute_key"
        /\ call.outcome = "returned"

C3_InputKept ==
    call'.fn = "VoxelDownSample" =>
        /\ points_' = points_
        /\ normals_' = normals_
        /\ colors_' = colors_

C3_RejectsBadVoxelSize == [](C3_RejectedState) /\ [][C3_InputKept]_vars

\* both rejections seen on a cloud that has points: voxel_size too small
C3_Witness ==
    /\ VoxelRejected
    /\ call.arg > 0
    /\ Len(points_) > 1
    /\ output = EmptyCloud

----------------------------------------------------------------------------
(* Claims about PointCloud::UniformDownSample *)

\* the indices the claim names: every multiple of k below n, in order
ClaimUniformIndices(n, k) ==
    [j \in 1..Cardinality({m \in 0..n : m * k < n}) |-> (j - 1) * k]

\* C2 (as claimed): UniformDownSample(k >= 1) returns exactly the input
\* points at indices 0, k, 2k, ... below n, with the normals and colors of
\* the same indices.
C2_UniformReturnsEveryKth ==
    (call.fn = "UniformDownSample" /\ call.arg >= 1 /\ call.outcome = "returned") =>
        LET idx == ClaimUniformIndices(Len(points_), call.arg)
        IN  /\ output.points = [j \in 1..Len(idx) |-> points_[idx[j] + 1]]
            /\ HasNormals =>
                  output.normals = [j \in 1..Len(idx) |-> normals_[idx[j] + 1]]
            /\ HasColors =>
                  output.colors = [j \in 1..Len(idx) |-> colors_[idx[j] + 1]]

\* C4: UniformDownSample(0) logs the error and neither divides by
\* every_k_points nor builds a strided range; if it returns, it returns an
\* empty cloud.
C4_ZeroSampleRate ==
    (call.fn = "UniformDownSample" /\ call.arg = 0) =>
        /\ events = <<"LogError">>
        /\ call.outcome \in {"threw", "returned"}
        /\ call.outcome = "returned" => output = EmptyCloud

C4_Witness ==
    /\ call.fn = "UniformDownSample"
    /\ call.arg = 0
    /\ call.outcome = "returned"
    /\ Len(points_) > 0

----------------------------------------------------------------------------
(* Claims about the outlier removers *)

OutlierWork ==
    {"kdtree.SetGeometry", "SearchRadius", "SearchKNN", "reduce_by_key",
     "divide by count", "divide by valid_distances", "copy_if", "SelectByIndex"}

\* C5 (as claimed): with illegal parameters RemoveRadiusOutliers and
\* RemoveStatisticalOutliers report the error and stop there: no kd-tree is
\* built, no neighbour search runs, nothing is divided by a neighbour count
\* and no point is selected.
C5_IllegalParamsStopTheCall ==
    /\ (call.fn = "RemoveRadiusOutliers"
            /\ RadiusParamsIllegal(call.arg[1], call.arg[2])) =>
          /\ events = <<"LogError">>
          /\ ret_indices = <<>>
          /\ output = EmptyCloud
    /\ (call.fn = "RemoveStatisticalOutliers"
            /\ StatParamsIllegal(call.arg[1], call.arg[2])) =>
          /\ events = <<"LogError">>
          /\ ret_indices = <<>>
          /\ output = EmptyCloud

----------------------------------------------------------------------------
(* Claims about thrust::strided_range *)

\* ceil(n / s), as the least m with m * s >= n
CeilDiv(n, s) == CHOOSE m \in 0..n : m * s >= n /\ (m = 0 \/ (m - 1) * s < n)

\* C10: a strided_range over a range of n elements with stride s >= 1 has
\* ceil(n / s) elements, its i-th element is element s * i of the range, and
\* every index it reads is below n.
C10_StridedRange ==
    range_stride >= 1 =>
        LET n == Len(range_src)
            s == range_stride
        IN  /\ Len(range_out) = CeilDiv(n, s)
            /\ Len(range_reads) = CeilDiv(n, s)
            /\ \A i \in 0..(Len(range_out) - 1) :
                  /\ range_reads[i + 1] = s * i
                  /\ s * i < n
                  /\ range_out[i + 1] = range_src[s * i + 1]

\* the documented example: [0..6] with stride 3 gives [0, 3, 6]
C10_Witness ==
    /\ range_src = <<0, 1, 2, 3, 4, 5, 6>>
    /\ range_stride = 3
    /\ range_out = <<0, 3, 6>>

----------------------------------------------------------------------------
(* Claims about io::ReadPointCloud / io::WritePointCloud *)

\* the extension as the claim resolves it
ClaimExtension(c) ==
    IF c.fn = "ReadPointCloud" /\ c.format # Auto
    THEN c.format
    ELSE GetFileExtensionInLowerCase(c.filename)

FormatFunctions ==
    {"ReadPointCloudFromPLY", "ReadPointCloudFromPCD",
     "WritePointCloudToPLY", "WritePointCloudToPCD"}

\* C6, on the step that makes the call: when the resolved extension is
\* empty or neither "ply" nor "pcd", the call returns false, invokes no format
\* reader or writer, removes no point and leaves the cloud as it was; the
\* extension is the format verbatim for a read whose format is not "auto",
\* the lower-cased file name extension otherwise.
C6_Step ==
    (io_call'.fn \in {"ReadPointCloud", "WritePointCloud"}
        /\ ClaimExtension(io_call') \notin {Ply, Pcd}) =>
            /\ io_call'.ret = FALSE
            /\ io_cloud' = io_cloud
            /\ \A e \in 1..Len(io_events') :
                  io_events'[e] \notin FormatFunctions \cup {"RemoveNoneFinitePoints"}

\* ... and an extension that resolves to "ply" or "pcd" reaches the reader
\* or writer of that format, whatever the other of file name and format says
C6_Resolved ==
    LET ext == ClaimExtension(io_call')
    IN  (io_call'.fn \in {"ReadPointCloud", "WritePointCloud"}
            /\ ext \in {Ply, Pcd}) =>
                io_events'[1] =
                    IF io_call'.fn = "ReadPointCloud"
                    THEN (IF ext = Ply THEN "ReadPointCloudFromPLY"
                                       ELSE "ReadPointCloudFromPCD")
                    ELSE (IF ext = Ply THEN "WritePointCloudToPLY"
                                       ELSE "WritePointCloudToPCD")

C6_UnknownExtension == [][C6_Step /\ C6_Resolved]_vars

\* a read of "a.ply" with format "PLY" (verbatim, not lower-cased) fails
C6_Witness ==
    /\ io_call.fn = "ReadPointCloud"
    /\ io_call.filename = <<"a", ".", "p", "l", "y">>
    /\ io_call.format = <<"P", "L", "Y">>
    /\ io_call.ret = FALSE
    /\ io_events = <<"LogWarning">>
    /\ io_cloud # <<>>

----------------------------------------------------------------------------
(* Claims about TexturePhongShader *)

\* the position in a trace of the first buffer generated or registered
FirstNewBuffer(ev) ==
    LET at == {k \in 1..Len(ev) :
                 ev[k][1] \in {"glGenBuffers", "cudaGraphicsGLRegisterBuffer"}}
    IN  IF at = {} THEN Len(ev) + 1
        ELSE CHOOSE k \in at : \A j \in at : k <= j

\* the GL buffers a bound shader holds
BoundBuffers(sh) ==
    {sh.vertex_position_buffer_, sh.vertex_normal_buffer_,
     sh.vertex_uv_buffer_, sh.diffuse_texture_pixel_buffer_}

\* the CUDA half of C7: the four handles held on entry are unregistered
\* before any new buffer is generated or registered, so none of them is
\* registered any more when its slot is overwritten
C7_HandlesUnregisteredFirst ==
    (shader_call'.fn = "BindGeometry" /\ shader.bound_) =>
        \A i \in 1..4 :
            /\ \E k \in 1..(FirstNewBuffer(shader_events') - 1) :
                  shader_events'[k] =
                      <<"cudaGraphicsUnregisterResource",
                        shader.cuda_graphics_resources_[i], 0>>
            /\ shader.cuda_graphics_resources_[i] \in cuda_unregistered'

\* the GL half of C7: each of the buffers held on entry is deleted before
\* any new buffer is generated
C7_BuffersClearedFirst ==
    (shader_call'.fn = "BindGeometry" /\ shader.bound_) =>
        \A b \in BoundBuffers(shader) :
            \E k \in 1..(FirstNewBuffer(shader_events') - 1) :
                shader_events'[k] = <<"glDeleteBuffers", b, 0>>

\* C7: a BindGeometry entered with bound_ true first unregisters the four
\* CUDA graphics resources of the previous binding and deletes its GL
\* buffers, all before it generates or registers a new buffer.
C7_BindUnbindsFirst ==
    [][C7_HandlesUnregisteredFirst /\ C7_BuffersClearedFirst]_vars

\* the texture of the geometry has no entry in one of the two maps
UnknownTexture(geometry) ==
    \/ geometry.num_of_channels_ \notin DOMAIN texture_format_map_
    \/ geometry.bytes_per_channel_ \notin DOMAIN texture_type_map_

\* C8: with a texture whose number of channels or bytes per channel is in
\* neither map, BindGeometry and RenderGeometry return false and call
\* neither glTexImage2D nor glTexSubImage2D.
C8_Step ==
    (shader_call'.fn \in {"BindGeometry", "RenderGeometry"}
        /\ UnknownTexture(shader_call'.geometry)) =>
            /\ shader_call'.ret = FALSE
            /\ \A k \in 1..Len(shader_events') :
                  shader_events'[k][1] \notin {"glTexImage2D", "glTexSubImage2D"}

C8_UnknownTextureAborts == [][C8_Step]_vars

----------------------------------------------------------------------------
(* Claims about the Graph<2> factories *)

Unsupported ==
    {"Graph<2>::CreateFromTriangleMesh", "Graph<2>::CreateFromAxisAlignedBoundingBox"}

\* C9: whatever mesh or box they are handed, the two unsupported Graph<2>
\* factories do nothing but report the error (they read nothing of the
\* input and run no construction) and, when they return, return an empty
\* Graph<2>: no points, no lines.
C9_Graph2Unsupported ==
    graph_call.fn \in Unsupported =>
        /\ graph_events = <<"LogError">>
        /\ graph_call.outcome = "thrown" => graph_out = <<>>
        /\ graph_call.outcome = "returned" =>
              /\ Len(graph_out) = 1
              /\ graph_out[1].points_ = <<>>
              /\ graph_out[1].lines_ = <<>>

\* the box factory of Graph<2> has returned from a call with a box and
\* resolutions that make a non-empty grid in Graph<3>
C9_Witness ==
    /\ graph_call.fn = "Graph<2>::CreateFromAxisAlignedBoundingBox"
    /\ graph_call.outcome = "returned"
    /\ graph_call.input.resolutions = <<2, 2, 1>>
    /\ graph_out = <<EmptyGraph>>

----------------------------------------------------------------------------
(* Claims about PointCloud::SelectByIndex *)

\* the call made was SelectByIndex with every index inside the cloud
SelectCalled(invert) ==
    /\ call.fn = "SelectByIndex"
    /\ call.invert = invert
    /\ \A i \in 1..Len(call.arg) : call.arg[i] < Len(points_)

\* src at the 0-based positions idx, in the order of idx
ClaimPick(idx, src) == [i \in 1..Len(idx) |-> src[idx[i] + 1]]

\* C11: SelectByIndex(indices, invert = false), for indices inside the
\* cloud, returns |indices| points, the i-th being the input point at
\* indices[i], repeats and order kept; normals and colours are gathered by
\* the same indices exactly when the input has them, and are empty otherwise.
C11_State ==
    SelectCalled(FALSE) =>
        /\ call.outcome = "returned"
        /\ ret_indices = call.arg
        /\ Len(output.points) = Len(call.arg)
        /\ output.points = ClaimPick(call.arg, points_)
        /\ output.normals =
              IF Len(points_) > 0 /\ Len(normals_) = Len(points_)
              THEN ClaimPick(call.arg, normals_) ELSE <<>>
        /\ output.colors =
              IF Len(points_) > 0 /\ Len(colors_) = Len(points_)
              THEN ClaimPick(call.arg, colors_) ELSE <<>>

\* ... and the call leaves the input cloud as it was
C11_InputKept ==
    call'.fn = "SelectByIndex" => UNCHANGED <<points_, normals_, colors_>>

C11_SelectByIndex == [](C11_State) /\ [][C11_InputKept]_vars

\* three points with normals, selected as 2, 0, 2
C11_Witness ==
    /\ SelectCalled(FALSE)
    /\ call.arg = <<2, 0, 2>>
    /\ Len(normals_) = 3
    /\ output.points = <<<<3, 0, 0>>, <<1, 0, 0>>, <<3, 0, 0>>>>
    /\ Len(output.normals) = 3

\* the indices of [0, n) that do not occur in the list, ascending
ClaimRest(indices, n) ==
    CopyIfIndices(1, [i \in 1..n |->
                        \A j \in 1..Len(indices) : indices[j] # i - 1])

\* C12: SelectByIndex(indices, invert = true), for indices inside the cloud
\* and whether or not an index is listed more than once, returns exactly the
\* input points whose index is not listed, in ascending index order: as many
\* as there are such indices, every gathered index below n.
C12_InvertedSelection ==
    SelectCalled(TRUE) =>
        LET rest == ClaimRest(call.arg, Len(points_))
        IN  /\ call.outcome = "returned"
            /\ ret_indices = rest
            /\ Len(output.points) = Len(rest)
            /\ output.points = ClaimPick(rest, points_)
            /\ \A i \in 1..Len(ret_indices) : ret_indices[i] < Len(points_)

\* what does hold of the inverted selection: with no index listed twice
C12_WithoutRepeats ==
    (SelectCalled(TRUE)
        /\ \A i, j \in 1..Len(call.arg) : i # j => call.arg[i] # call.arg[j]) =>
            /\ call.outcome = "returned"
            /\ ret_indices = ClaimRest(call.arg, Len(points_))
            /\ output.points = ClaimPick(ret_indices, points_)

----------------------------------------------------------------------------
(* Claims about the means PointCloud::VoxelDownSample returns *)

\* the input points whose computed key is k
SameVoxel(k) == {i \in 1..Len(points_) : keys[i] = k}

\* the place of key k among the distinct keys, in the order of the sort
VoxelRank(k) ==
    1 + Cardinality({k2 \in {keys[i] : i \in 1..Len(keys)} : KeyLess(k2, k)})

RECURSIVE SumCounts(_)
SumCounts(points) ==
    IF points = <<>> THEN 0 ELSE points[1].den + SumCounts(Tail(points))

\* C13: when the size check passes, the output point of each voxel is the
\* arithmetic mean of the input points with that voxel key (count times the
\* output point is their component-wise sum, the count being the number of
\* those points), every count is >= 1, and the counts add up to the number
\* of input points.
C13_VoxelMean ==
    VoxelAccepted =>
        /\ Len(keys) = Len(points_)
        /\ \A i \in 1..Len(points_) :
              LET members == SameVoxel(keys[i])
                  out == output.points[VoxelRank(keys[i])]
              IN  /\ out.den = Cardinality(members)
                  /\ \A a \in Axes :
                        out.num[a] * Cardinality(members)
                            = SumPoints(members)[a] * out.den
        /\ \A j \in 1..Len(output.points) : output.points[j].den >= 1
        /\ SumCounts(output.points) = Len(points_)

\* three points in two voxels, the mean of the shared voxel being none of
\* the input points
C13_Witness ==
    /\ VoxelAccepted
    /\ Len(points_) = 3
    /\ \E j \in 1..Len(output.points) :
          /\ output.points[j].den = 2
          /\ output.points[j].num[1] % 2 = 1
    /\ \E j \in 1..Len(output.points) : output.points[j].den = 1

----------------------------------------------------------------------------
(* Claims about the lifetime of the shader's CUDA graphics resources *)

\* no call has unregistered a handle that was not registered (any more)
NoDoubleUnregister ==
    \A k \in 1..Len(shader_events) :
        shader_events[k][1] # "cudaErrorInvalidResourceHandle"

\* the GL buffer of every resource that is still registered still exists
RegisteredBuffersAlive ==
    \A r \in cuda_registered : r.buffer \in gl_buffers

\* C14: after any sequence of BindGeometry, UnbindGeometry and Release
\* calls, no CUDA graphics resource has been unregistered twice, and none is
\* still registered once the GL buffer it was registered for is deleted.
C14_ResourceLifetime == NoDoubleUnregister /\ RegisteredBuffersAlive

====
